---- MODULE Spec2Model ----
(***************************************************************************)
(* Connected-components engines of pardis2025 (src/src/algorithms).        *)
(* One engine call is modelled as a state machine: the calling (main)      *)
(* thread walks dispatch -> allocation -> worker phases -> counting, and   *)
(* every worker thread takes one step per access to shared memory (the     *)
(* label array, the column cursor, the change flag).                       *)
(***************************************************************************)
EXTENDS Integers, Sequences, FiniteSets, TLC

(***************************************************************************)
(* Bounds of the model.                                                    *)
(***************************************************************************)
\* largest nrows of an adjacency drawn by the general specification
MaxNodes == 3
\* largest number of stored (row, column) entries
MaxNnz == 3
\* largest worker count
MaxThreads == 2
\* largest algorithm_variant passed to an entry point (0 and 1 are valid)
MaxVariant == 2
\* columns claimed per fetch-and-add. The source uses 4096
\* (cc_pthreads.c:150 and :326); scaled so that two workers share a small graph.
CHUNK_SIZE == 1
\* CAS attempts of union_rem before the fallback store. The source uses 10
\* (cc_pthreads.c:79); scaled so that the fallback is reached on a small graph.
MAX_RETRIES == 1
\* columns per chunk of the openmp union-find loop: schedule(dynamic, 128)
\* in the source (cc_openmp.c:151); scaled like CHUNK_SIZE.
OMP_UF_CHUNK == 1
\* nrows of the contended adjacencies (a hub column between two workers)
HubNodes == 4
\* number of entries stored in the hub column of a contended adjacency
HubDegree == 3

(***************************************************************************)
(* The adjacency (CSCBinaryMatrix): nrows, ncols, nnz, col_ptr[0..ncols],  *)
(* row_idx[0..nnz-1].  NULL is the null reference.                         *)
(***************************************************************************)
NULL == [null |-> TRUE]
NoResult == "none"

Min(a, b) == IF a < b THEN a ELSE b

\* entries: a sequence of <<row, col>> pairs in column order
ColsSorted(es) == \A i \in 1..(Len(es) - 1) : es[i][2] <= es[i + 1][2]

EntrySeqs(nnz, rowVals, ncols) ==
    {es \in [1..nnz -> rowVals \X (0..(ncols - 1))] : ColsSorted(es)}

MkMatrix(nrows, ncols, es) ==
    [nrows   |-> nrows,
     ncols   |-> ncols,
     nnz     |-> Len(es),
     col_ptr |-> [c \in 0..ncols |-> Cardinality({i \in 1..Len(es) : es[i][2] < c})],
     row_idx |-> [i \in 0..(Len(es) - 1) |-> es[i + 1][1]]]

\* every adjacency with the given shape, nnz <= maxNnz, row values in rowVals
Matrices(nrows, ncols, maxNnz, rowVals) ==
    {MkMatrix(nrows, ncols, es) :
        es \in UNION {EntrySeqs(k, rowVals, ncols) : k \in 0..maxNnz}}

\* the precondition of the claims: square, every row index < nrows
ValidAdjacency(m) ==
    /\ m # NULL
    /\ m.ncols = m.nrows
    /\ \A i \in 0..(m.nnz - 1) : m.row_idx[i] < m.nrows

\* the stored (row, column) pairs
Edges(m) ==
    {<<m.row_idx[p[2]], p[1]>> :
        p \in {q \in (0..(m.ncols - 1)) \X (0..(m.nnz - 1)) :
                  m.col_ptr[q[1]] <= q[2] /\ q[2] < m.col_ptr[q[1] + 1]}}

(***************************************************************************)
(* Reference: the connected components of the undirected graph on          *)
(* 0..nrows-1 whose edges are the stored pairs.                            *)
(***************************************************************************)
RECURSIVE Reach(_, _)
Reach(S, E) ==
    LET T == S \cup {e[1] : e \in {f \in E : f[2] \in S}}
                \cup {e[2] : e \in {f \in E : f[1] \in S}}
    IN  IF T = S THEN S ELSE Reach(T, E)

\* the stored pairs that join two nodes of the graph
ValidEdges(m) == {e \in Edges(m) : e[1] < m.nrows /\ e[2] < m.nrows}

Component(m, i) == Reach({i}, ValidEdges(m))

NumComponents(m) == Cardinality({Component(m, i) : i \in 0..(m.nrows - 1)})

(***************************************************************************)
(* State.                                                                  *)
(***************************************************************************)
VARIABLES
    engine,             \* which entry point is called
    algorithm_variant,  \* its third argument
    n_threads,          \* its second argument
    matrix,             \* its first argument (NULL or an adjacency)
    pc,                 \* position of the calling thread
    label,              \* the label array (<<>> while not allocated)
    heap,               \* state of the two buffers of the call
    next_col,           \* shared column cursor
    global_change,      \* shared change flag of label propagation
    wk,                 \* per-worker locals and position
    result,             \* value returned by the entry point
    ub,                 \* undefined behaviour executed by the call, if any
    unclaimed,          \* columns no cilk_for task has taken yet
    spawned,            \* whether any worker thread was started
    deref,              \* whether the adjacency reference was dereferenced
    create_failed,      \* whether some pthread_create of the call failed
    visits,             \* per stored entry: times a worker took it this pass
    stored,             \* whether a worker stored a label in this pass
    united,             \* per worker: its union_rem call began on two nodes
                        \* of one set and is in its first attempt (followed
                        \* for calls of up to MaxThreads workers)
    pass_start,         \* the label array as it was when this pass began
    bench,              \* the benchmark harness (benchmark_cc) around the calls
    args                \* parseargs: the command line, its outputs, its result

vars == <<engine, algorithm_variant, n_threads, matrix, pc, label, heap,
          next_col, global_change, wk, result, ub, unclaimed, spawned, deref,
          create_failed, visits, stored, united, pass_start, bench,
          args>>

\* what an engine call is given and never changes: its arguments and the
\* state of its caller
inputs == <<engine, algorithm_variant, n_threads, matrix, bench, args>>

\* the state of one engine call
call_state == <<engine, algorithm_variant, n_threads, matrix, pc, label, heap,
                next_col, global_change, wk, result, ub, unclaimed, spawned,
                deref, create_failed, visits, stored, united,
                   pass_start>>

Threads == 1..MaxThreads

\* benchmark_cc is not running
BenchIdle ==
    [pc |-> "idle", n_trials |-> 0, i |-> 0, connected_components |-> 0,
     ret |-> NoResult, runs |-> <<>>]

\* parseargs has not been called; filepath is <<>> for NULL and <<s>> for a
\* pointer to the argument s
ArgsIdle ==
    [pc |-> "idle", argv |-> <<>>, optind |-> 1, n_threads |-> 0,
     n_trials |-> 0, algorithm_variant |-> 0, filepath |-> <<>>,
     seen |-> <<>>, ret |-> NoResult]

IdleWorker ==
    [pc |-> "idle", end_col |-> 0, c |-> 0, j |-> 0,
     a |-> 0, b |-> 0, retry |-> 0,
     site |-> "-", root |-> 0, x |-> 0, next |-> 0,
     changed |-> 0, label_col |-> 0, label_row |-> 0]

ExitedWorker == [IdleWorker EXCEPT !.pc = "exit"]

InLabel(i) == i \in DOMAIN label

(***************************************************************************)
(* Edge iteration of a worker over its claimed columns [c, end_col).       *)
(***************************************************************************)
\* openmp and cilk union-find test row < n before the union
BoundsChecked == engine \in {"openmp", "cilk"} /\ algorithm_variant = 1

\* first position (c, j) at or after (c, j) that holds an entry to process
RECURSIVE SkipEmpty(_, _, _)
SkipEmpty(c, j, end_col) ==
    IF c >= end_col THEN <<end_col, 0>>
    ELSE IF j < matrix.col_ptr[c + 1]
         THEN IF BoundsChecked /\ matrix.row_idx[j] >= matrix.nrows
              THEN SkipEmpty(c, j + 1, end_col)
              ELSE <<c, j>>
         ELSE SkipEmpty(c + 1, matrix.col_ptr[c + 1], end_col)

\* find_compress(label, node) begins: root = x = node
StartFind(w, site, node) ==
    [w EXCEPT !.pc = "walk", !.site = site, !.root = node, !.x = node, !.next = 0]

\* the worker is at entry (c, j): union_rem(label, row, c) begins, or, in
\* label propagation, the two label reads of the entry
AtEntry(w, c, j) ==
    IF algorithm_variant = 1
    THEN StartFind([w EXCEPT !.c = c, !.j = j, !.a = matrix.row_idx[j],
                             !.b = c, !.retry = 0],
                   "a", matrix.row_idx[j])
    ELSE [w EXCEPT !.pc = "read_col", !.c = c, !.j = j,
                   !.label_col = 0, !.label_row = 0]

\* ChunkDone with the publication of the change flag left out
ChunkDone_no_flag(w) == [IdleWorker EXCEPT !.pc = "fetch"]

\* ChunkDone with the change flag published after every chunk of label
\* propagation, whether the chunk stored a label or not
ChunkDone_flag_always(w) ==
    IF algorithm_variant = 0
    THEN [IdleWorker EXCEPT !.pc = "flag", !.changed = 1]
    ELSE [IdleWorker EXCEPT !.pc = "fetch"]

\* the chunk is exhausted: back to the cursor.  pthreads and cilk label
\* propagation first publish the chunk's change flag; an openmp thread keeps
\* local_changed until it leaves the loop
ChunkDone(w) ==
    IF algorithm_variant = 0 /\ w.changed = 1
    THEN IF engine = "openmp"
         THEN [IdleWorker EXCEPT !.pc = "fetch", !.changed = 1]
         ELSE [IdleWorker EXCEPT !.pc = "flag", !.changed = 1]
    ELSE [IdleWorker EXCEPT !.pc = "fetch"]

\* continue the loops over c and j from position (c, j)
Advance(w, c, j) ==
    LET p == SkipEmpty(c, j, w.end_col)
    IN  IF p[1] >= w.end_col
        THEN ChunkDone(w)
        ELSE AtEntry([IdleWorker EXCEPT !.end_col = w.end_col,
                                        !.changed = w.changed],
                     p[1], p[2])

\* union_rem returns: next entry
UnionReturn(w) == Advance(w, w.c, w.j + 1)

(***************************************************************************)
(* find_compress, one step per read or write of the label array.           *)
(***************************************************************************)
\* FindReturn without the test a == b: equal roots go on to the
\* compare-and-swap or to the fallback store
FindReturn_no_equal_test(w, r) ==
    CASE w.site = "a"  -> StartFind([w EXCEPT !.a = r], "b", w.b)
      [] w.site = "fa" -> StartFind([w EXCEPT !.a = r], "fb", w.b)
      [] w.site = "b"  ->
            [w EXCEPT !.pc = "cas", !.a = Min(w.a, r),
                      !.b = IF w.a > r THEN w.a ELSE r,
                      !.site = "-", !.root = 0, !.x = 0, !.next = 0]
      [] w.site = "fb" ->
            [w EXCEPT !.pc = "store", !.a = Min(w.a, r),
                      !.b = IF w.a > r THEN w.a ELSE r,
                      !.site = "-", !.root = 0, !.x = 0, !.next = 0]

\* find_compress returns root r to its call site in union_rem
FindReturn(w, r) ==
    CASE w.site = "a"  -> StartFind([w EXCEPT !.a = r], "b", w.b)
      [] w.site = "fa" -> StartFind([w EXCEPT !.a = r], "fb", w.b)
      [] w.site = "b"  ->
            IF w.a = r THEN UnionReturn(w)
            ELSE [w EXCEPT !.pc = "cas", !.a = Min(w.a, r),
                           !.b = IF w.a > r THEN w.a ELSE r,
                           !.site = "-", !.root = 0, !.x = 0, !.next = 0]
      [] w.site = "fb" ->
            IF w.a = r THEN UnionReturn(w)
            ELSE [w EXCEPT !.pc = "store", !.a = Min(w.a, r),
                           !.b = IF w.a > r THEN w.a ELSE r,
                           !.site = "-", !.root = 0, !.x = 0, !.next = 0]

\* a worker's access to label[i] with i outside the array
OutOfBounds ==
    /\ ub' = "oob"
    /\ pc' = "ub"
    /\ UNCHANGED <<inputs, label, heap, next_col, global_change, wk, result,
                   unclaimed, spawned, deref, create_failed>>

Running(t) == /\ pc = "join" /\ ub = "none" /\ t \in DOMAIN wk

\* worker t begins the body of the edge loop for a stored entry in this
\* step: it comes from the cursor or from another entry
TakesEntry(t) ==
    /\ wk'[t].pc \in {"walk", "read_col"}
    /\ wk[t].pc = "fetch" \/ wk'[t].j # wk[t].j

\* the root of x: the fixed point of label reached from x
RECURSIVE Root(_, _)
Root(lab, x) == IF lab[x] = x THEN x ELSE Root(lab, lab[x])

\* the node reached from x after k reads of label
RECURSIVE Follow(_, _, _)
Follow(lab, x, k) == IF k = 0 THEN x ELSE Follow(lab, lab[x], k - 1)

\* the loop while (label[root] != root) root = label[root] ends from every
\* node: no parent cycle
Acyclic(lab) ==
    \A i \in DOMAIN lab :
        LET r == Follow(lab, i, Cardinality(DOMAIN lab)) IN lab[r] = r

\* w is inside its first attempt of a union_rem call
FirstAttempt(w) ==
    /\ algorithm_variant = 1
    /\ w.retry = 0
    /\ w.pc \in {"walk", "compress_read", "compress_test", "compress_write",
                 "cas"}
    /\ w.site \in {"a", "b", "-"}

\* union_rem(label, row, c) begins for the entry of w while row and c have
\* the same root in lab
BeginsUnited(lab, w) ==
    /\ algorithm_variant = 1
    /\ matrix.row_idx[w.j] \in DOMAIN lab
    /\ w.c \in DOMAIN lab
    /\ Acyclic(lab)
    /\ Root(lab, matrix.row_idx[w.j]) = Root(lab, w.c)

\* the step of worker t is the store of min_label into the label array
StoresLabel(t) == wk[t].pc = "store_min"

\* what the pass has done so far: visits counts the entries the workers
\* take, stored tells whether a label was stored
Visit(t) ==
    /\ visits' = IF TakesEntry(t)
                 THEN [visits EXCEPT ![wk'[t].j] = @ + 1]
                 ELSE visits
    /\ stored' = (stored \/ StoresLabel(t))
    /\ united' = IF Cardinality(DOMAIN wk) > MaxThreads THEN united
                 ELSE [united EXCEPT ![t] =
                          IF TakesEntry(t)
                          THEN BeginsUnited(label', wk'[t])
                          ELSE united[t] /\ FirstAttempt(wk'[t])]
    /\ pass_start' = pass_start

\* while (label[root] != root) root = label[root];
Walk(t) ==
    /\ Running(t)
    /\ wk[t].pc = "walk"
    /\ LET w == wk[t] IN
       IF ~InLabel(w.root) THEN OutOfBounds
       ELSE /\ wk' = [wk EXCEPT ![t] =
                        IF label[w.root] # w.root
                        THEN [w EXCEPT !.root = label[w.root]]
                        ELSE IF w.x = w.root THEN FindReturn(w, w.root)
                             ELSE [w EXCEPT !.pc = "compress_read"]]
            /\ UNCHANGED <<inputs, pc, label, heap, next_col, global_change,
                           result, ub, unclaimed, spawned, deref, create_failed>>
    /\ Visit(t)

\* uint32_t next = label[x];
CompressRead(t) ==
    /\ Running(t)
    /\ wk[t].pc = "compress_read"
    /\ wk' = [wk EXCEPT ![t] = [wk[t] EXCEPT !.next = label[wk[t].x],
                                             !.pc = "compress_test"]]
    /\ UNCHANGED <<inputs, pc, label, heap, next_col, global_change,
                   result, ub, unclaimed, spawned, deref, create_failed>>
    /\ Visit(t)

\* if (label[x] == next) break;   -- a second, unsynchronised read
CompressTest(t) ==
    /\ Running(t)
    /\ wk[t].pc = "compress_test"
    /\ LET w == wk[t] IN
       wk' = [wk EXCEPT ![t] =
                IF label[w.x] = w.next THEN FindReturn(w, w.root)
                ELSE [w EXCEPT !.pc = "compress_write"]]
    /\ UNCHANGED <<inputs, pc, label, heap, next_col, global_change,
                   result, ub, unclaimed, spawned, deref, create_failed>>
    /\ Visit(t)

\* label[x] = root; x = next;   -- plain store
CompressWrite(t) ==
    /\ Running(t)
    /\ wk[t].pc = "compress_write"
    /\ LET w == wk[t] IN
       /\ label' = [label EXCEPT ![w.x] = w.root]
       /\ wk' = [wk EXCEPT ![t] =
                   IF w.next = w.root THEN FindReturn(w, w.root)
                   ELSE [w EXCEPT !.x = w.next, !.next = 0,
                                  !.pc = "compress_read"]]
    /\ UNCHANGED <<inputs, pc, heap, next_col, global_change,
                   result, ub, unclaimed, spawned, deref, create_failed>>
    /\ Visit(t)

(***************************************************************************)
(* union_rem: the compare-and-swap and the fallback store.                 *)
(***************************************************************************)
\* the compare-and-swap as a store that does not compare
CasAttempt_unconditional(t) ==
    /\ Running(t)
    /\ wk[t].pc = "cas"
    /\ label' = [label EXCEPT ![wk[t].b] = wk[t].a]
    /\ wk' = [wk EXCEPT ![t] = UnionReturn(wk[t])]
    /\ UNCHANGED <<inputs, pc, heap, next_col, global_change,
                   result, ub, unclaimed, spawned, deref, create_failed>>
    /\ Visit(t)

\* __atomic_compare_exchange_n(&label[b], &expected, a, ...) with expected = b
CasAttempt(t) ==
    /\ Running(t)
    /\ wk[t].pc = "cas"
    /\ LET w == wk[t] IN
       IF label[w.b] = w.b
       THEN /\ label' = [label EXCEPT ![w.b] = w.a]
            /\ wk' = [wk EXCEPT ![t] = UnionReturn(w)]
       ELSE /\ label' = label
            /\ wk' = [wk EXCEPT ![t] =
                        LET v == [w EXCEPT !.b = label[w.b],
                                           !.retry = w.retry + 1]
                        IN  IF v.retry < MAX_RETRIES
                            THEN StartFind(v, "a", v.a)
                            ELSE StartFind(v, "fa", v.a)]
    /\ UNCHANGED <<inputs, pc, heap, next_col, global_change,
                   result, ub, unclaimed, spawned, deref, create_failed>>
    /\ Visit(t)

\* __atomic_store_n(&label[b], a, __ATOMIC_RELEASE) after the retries
FallbackStore(t) ==
    /\ Running(t)
    /\ wk[t].pc = "store"
    /\ label' = [label EXCEPT ![wk[t].b] = wk[t].a]
    /\ wk' = [wk EXCEPT ![t] = UnionReturn(wk[t])]
    /\ UNCHANGED <<inputs, pc, heap, next_col, global_change,
                   result, ub, unclaimed, spawned, deref, create_failed>>
    /\ Visit(t)

\* how the write to the label array at each position of a worker is made:
\* label[x] = root in find_compress is an ordinary assignment, the others are
\* __atomic_compare_exchange_n, __atomic_store_n or "omp atomic write"
store_kind(p) ==
    CASE p = "compress_write" -> "plain"
      [] p = "cas"            -> "atomic"
      [] p = "store"          -> "atomic"
      [] p = "store_min"      -> "atomic"
      [] OTHER                -> "none"

(***************************************************************************)
(* Label propagation: the body of the edge loop.                           *)
(***************************************************************************)
\* uint32_t label_col = args->label[c];
ReadCol(t) ==
    /\ Running(t)
    /\ wk[t].pc = "read_col"
    /\ IF ~InLabel(wk[t].c) THEN OutOfBounds
       ELSE /\ wk' = [wk EXCEPT ![t] =
                        [wk[t] EXCEPT !.label_col = label[wk[t].c],
                                      !.pc = "read_row"]]
            /\ UNCHANGED <<inputs, pc, label, heap, next_col, global_change,
                           result, ub, unclaimed, spawned, deref, create_failed>>
    /\ Visit(t)

\* ReadRow without the comparison: the entry is left as it is
ReadRow_ignores_difference(t) ==
    /\ Running(t)
    /\ wk[t].pc = "read_row"
    /\ LET w   == wk[t]
           row == matrix.row_idx[w.j]
       IN  IF ~InLabel(row) THEN OutOfBounds
           ELSE /\ wk' = [wk EXCEPT ![t] = Advance(w, w.c, w.j + 1)]
                /\ UNCHANGED <<inputs, pc, label, heap, next_col,
                               global_change, result, ub, unclaimed, spawned,
                               deref, create_failed>>
    /\ Visit(t)

\* uint32_t label_row = args->label[row]; if (label_col != label_row) ...
ReadRow(t) ==
    /\ Running(t)
    /\ wk[t].pc = "read_row"
    /\ LET w   == wk[t]
           row == matrix.row_idx[w.j]
       IN  IF ~InLabel(row) THEN OutOfBounds
           ELSE /\ wk' = [wk EXCEPT ![t] =
                            IF w.label_col # label[row]
                            THEN [w EXCEPT !.label_row = label[row],
                                           !.pc = "store_min"]
                            ELSE Advance(w, w.c, w.j + 1)]
                /\ UNCHANGED <<inputs, pc, label, heap, next_col,
                               global_change, result, ub, unclaimed, spawned,
                               deref, create_failed>>
    /\ Visit(t)

\* StoreMin storing the larger of the two labels read into the entry that
\* was read as the smaller one
StoreMin_stores_larger(t) ==
    /\ Running(t)
    /\ wk[t].pc = "store_min"
    /\ LET w   == wk[t]
           row == matrix.row_idx[w.j]
       IN  /\ label' = IF w.label_col > w.label_row
                       THEN [label EXCEPT ![row] = w.label_col]
                       ELSE [label EXCEPT ![w.c] = w.label_row]
           /\ wk' = [wk EXCEPT ![t] =
                       Advance([w EXCEPT !.changed = 1], w.c, w.j + 1)]
    /\ UNCHANGED <<inputs, pc, heap, next_col, global_change,
                   result, ub, unclaimed, spawned, deref, create_failed>>
    /\ Visit(t)

\* the store of min_label into the entry that was read as the larger one
StoreMin(t) ==
    /\ Running(t)
    /\ wk[t].pc = "store_min"
    /\ LET w         == wk[t]
           row       == matrix.row_idx[w.j]
           min_label == Min(w.label_col, w.label_row)
       IN  /\ label' = IF w.label_col > min_label
                       THEN [label EXCEPT ![w.c] = min_label]
                       ELSE [label EXCEPT ![row] = min_label]
           /\ wk' = [wk EXCEPT ![t] =
                       Advance([w EXCEPT !.changed = 1], w.c, w.j + 1)]
    /\ UNCHANGED <<inputs, pc, heap, next_col, global_change,
                   result, ub, unclaimed, spawned, deref, create_failed>>
    /\ Visit(t)

\* if (changed) atomic_store(args->global_change, 1);
SetChanged(t) ==
    /\ Running(t)
    /\ wk[t].pc = "flag"
    /\ global_change' = 1
    /\ wk' = [wk EXCEPT ![t] =
                IF engine = "openmp" THEN ExitedWorker
                ELSE [IdleWorker EXCEPT !.pc = "fetch"]]
    /\ UNCHANGED <<inputs, pc, label, heap, next_col,
                   result, ub, unclaimed, spawned, deref, create_failed>>
    /\ Visit(t)

(***************************************************************************)
(* Work partitioning.                                                      *)
(***************************************************************************)
ChunkSize ==
    IF engine = "openmp" /\ algorithm_variant = 1 THEN OMP_UF_CHUNK
    ELSE CHUNK_SIZE

\* ClaimEnd with chunks that reach one column into the next claim
ClaimEnd_overlap(col) == Min(col + ChunkSize + 1, matrix.ncols)

\* end_col = col + CHUNK_SIZE; if (end_col > ncols) end_col = ncols;
ClaimEnd(col) == Min(col + ChunkSize, matrix.ncols)

\* col = atomic_fetch_add(next_col, CHUNK_SIZE): pthreads workers and the
\* dynamic schedule of the openmp loops
FetchChunk(t) ==
    /\ Running(t)
    /\ engine \in {"pthreads", "openmp"}
    /\ wk[t].pc = "fetch"
    /\ LET w   == wk[t]
           col == next_col
       IN  /\ next_col' = IF engine = "openmp" /\ col >= matrix.ncols
                          THEN next_col
                          ELSE next_col + ChunkSize
           /\ wk' = [wk EXCEPT ![t] =
                       IF col >= matrix.ncols
                       THEN IF engine = "openmp" /\ w.changed = 1
                            THEN [IdleWorker EXCEPT !.pc = "flag", !.changed = 1]
                            ELSE ExitedWorker
                       ELSE Advance([w EXCEPT !.end_col = ClaimEnd(col)],
                                    col, matrix.col_ptr[col])]
    /\ UNCHANGED <<inputs, pc, label, heap, global_change,
                   result, ub, unclaimed, spawned, deref, create_failed>>
    /\ Visit(t)

\* cilk_for over the columns: a strand takes any column not yet taken
TakeColumn(t) ==
    /\ Running(t)
    /\ engine = "cilk"
    /\ wk[t].pc = "fetch"
    /\ IF unclaimed = {}
       THEN /\ wk' = [wk EXCEPT ![t] = ExitedWorker]
            /\ unclaimed' = unclaimed
       ELSE \E col \in unclaimed :
               /\ unclaimed' = unclaimed \ {col}
               /\ wk' = [wk EXCEPT ![t] =
                           Advance([wk[t] EXCEPT !.end_col = col + 1],
                                   col, matrix.col_ptr[col])]
    /\ UNCHANGED <<inputs, pc, label, heap, next_col, global_change,
                   result, ub, spawned, deref, create_failed>>
    /\ Visit(t)

(***************************************************************************)
(* The sequential engine (cc_sequential.c), executed by the caller alone.  *)
(***************************************************************************)
\* while (label[i] != i) { label[i] = label[label[i]]; i = label[i]; }
RECURSIVE find_root_halving(_, _)
find_root_halving(lab, i) ==
    IF lab[i] = i THEN [label |-> lab, root |-> i]
    ELSE LET l2 == [lab EXCEPT ![i] = lab[lab[i]]]
         IN  find_root_halving(l2, l2[i])

union_nodes_by_index(lab, i, j) ==
    LET fi     == find_root_halving(lab, i)
        fj     == find_root_halving(fi.label, j)
        root_i == fi.root
        root_j == fj.root
    IN  IF root_i = root_j THEN [label |-> fj.label, ret |-> 0]
        ELSE IF root_i < root_j
             THEN [label |-> [fj.label EXCEPT ![root_j] = root_i], ret |-> 1]
             ELSE [label |-> [fj.label EXCEPT ![root_i] = root_j], ret |-> 1]

\* the two edge loops of the sequential cc_union_find, from column i, entry j
RECURSIVE seq_union_edges(_, _, _, _)
seq_union_edges(m, lab, i, j) ==
    IF i >= m.ncols THEN lab
    ELSE IF j < m.col_ptr[i + 1]
         THEN seq_union_edges(m, union_nodes_by_index(lab, i, m.row_idx[j]).label,
                              i, j + 1)
         ELSE seq_union_edges(m, lab, i + 1, m.col_ptr[i + 1])

\* a final pass that makes every node its own parent
seq_final_compress_detaches(lab, i, n) == [k \in DOMAIN lab |-> k]

\* seq_final_compress with the pass left out
seq_final_compress_skipped(lab, i, n) == lab

\* for (i = 0; i < nrows; i++) find_root_halving(label, i);
RECURSIVE seq_final_compress(_, _, _)
seq_final_compress(lab, i, n) ==
    IF i >= n THEN lab
    ELSE seq_final_compress(find_root_halving(lab, i).label, i + 1, n)

\* number of i in [begin, end) with label[i] == i
count_roots(lab, begin, end) ==
    Cardinality({i \in begin..(end - 1) : lab[i] = i})

\* the inner loop of the sequential label propagation for column i
RECURSIVE seq_lp_column(_, _, _, _, _, _)
seq_lp_column(m, lab, i, j, col_label, finished) ==
    IF j >= m.col_ptr[i + 1] THEN [label |-> lab, finished |-> finished]
    ELSE LET row       == m.row_idx[j]
             row_label == lab[row]
             min_label == Min(col_label, row_label)
             l1        == IF col_label > min_label
                          THEN [lab EXCEPT ![i] = min_label] ELSE lab
             l2        == IF row_label > min_label
                          THEN [l1 EXCEPT ![row] = min_label] ELSE l1
         IN  IF col_label # row_label
             THEN seq_lp_column(m, l2, i, j + 1, min_label, 0)
             ELSE seq_lp_column(m, lab, i, j + 1, col_label, finished)

\* one pass over the columns, from column i
RECURSIVE seq_lp_pass(_, _, _, _)
seq_lp_pass(m, lab, i, finished) ==
    IF i >= m.ncols THEN [label |-> lab, finished |-> finished]
    ELSE LET r == seq_lp_column(m, lab, i, m.col_ptr[i], lab[i], finished)
         IN  seq_lp_pass(m, r.label, i + 1, r.finished)

\* do { finished = 1; pass } while (!finished);
RECURSIVE seq_lp_loop(_, _)
seq_lp_loop(m, lab) ==
    LET r == seq_lp_pass(m, lab, 0, 1)
    IN  IF r.finished = 1 THEN r.label ELSE seq_lp_loop(m, r.label)

\* the bits set by bitmap[val >> 6] |= 1 << (val & 63) over all i
bitmap_bits(lab, n) == {lab[i] : i \in 0..(n - 1)}

\* popcount that counts the non-zero words instead of the set bits
popcount_nonzero_words(bits) == Cardinality({b \div 64 : b \in bits})

\* sum of __builtin_popcountll over the words
popcount(bits) == Cardinality(bits)

\* the label accesses of the sequential engine stay inside the array
SeqInBounds(m, variant) ==
    /\ \A e \in Edges(m) : e[1] < m.nrows /\ e[2] < m.nrows
    /\ variant = 0 => m.ncols <= m.nrows

\* Identity with every node labelled 0
Identity_zero(n) == [i \in 0..(n - 1) |-> 0]

\* for (i = 0; i < n; i++) label[i] = i;
Identity(n) == [i \in 0..(n - 1) |-> i]

(***************************************************************************)
(* Compression and counting of the parallel union-find engines; they run   *)
(* after the join, with no writer left.                                    *)
(***************************************************************************)

\* the compression loop of find_compress when nothing else writes label
RECURSIVE compress_alone(_, _, _)
compress_alone(lab, x, root) ==
    IF x = root THEN lab
    ELSE LET next == lab[x]
         IN  IF lab[x] = next THEN lab
             ELSE compress_alone([lab EXCEPT ![x] = root], next, root)

find_compress(lab, x) ==
    [label |-> compress_alone(lab, x, Root(lab, x)), root |-> Root(lab, x)]

\* for (i = 0; i < n; i++) find_compress(label, i);
RECURSIVE final_compress(_, _, _)
final_compress(lab, i, n) ==
    IF i >= n THEN lab
    ELSE final_compress(find_compress(lab, i).label, i + 1, n)

\* count_args[i].begin one node too low: the ranges of neighbouring counting
\* threads overlap
count_begin_overlapping(i, chunk) == IF i = 0 THEN 0 ELSE i * chunk - 1

\* count_args[i].begin / .end of the pthreads counting phase
count_begin(i, chunk) == i * chunk
count_end(i, chunk, n) ==
    IF count_begin(i, chunk) + chunk > n THEN n ELSE count_begin(i, chunk) + chunk

\* total += count_args[i].local over the counting threads i (numbered from
\* 0) that ran, i.e. those with i + 1 in S
RECURSIVE sum_counts(_, _, _, _, _, _)
sum_counts(lab, n, chunk, i, nthr, S) ==
    IF i >= nthr THEN 0
    ELSE (IF (i + 1) \in S
          THEN count_roots(lab, count_begin(i, chunk), count_end(i, chunk, n))
          ELSE 0)
         + sum_counts(lab, n, chunk, i + 1, nthr, S)

\* the value of total (pthreads, counting threads S ran) or count (openmp,
\* cilk)
parallel_count(lab, n, S) ==
    IF engine = "pthreads"
    THEN sum_counts(lab, n, (n + n_threads - 1) \div n_threads, 0, n_threads, S)
    ELSE count_roots(lab, 0, n)

(***************************************************************************)
(* A parallel engine run by a single worker: no other thread touches the  *)
(* label array, the worker takes the chunks in column order, every        *)
(* compare-and-swap finds the value it expects.                           *)
(***************************************************************************)
union_rem_alone(lab, a, b) ==
    LET ra == find_compress(lab, a)
        rb == find_compress(ra.label, b)
    IN  IF ra.root = rb.root THEN rb.label
        ELSE IF ra.root < rb.root
             THEN [rb.label EXCEPT ![rb.root] = ra.root]
             ELSE [rb.label EXCEPT ![ra.root] = rb.root]

\* the edge loops of union_find_worker from column c, entry j
RECURSIVE alone_union_edges(_, _, _, _)
alone_union_edges(m, lab, c, j) ==
    IF c >= m.ncols THEN lab
    ELSE IF j < m.col_ptr[c + 1]
         THEN alone_union_edges(m, union_rem_alone(lab, m.row_idx[j], c), c, j + 1)
         ELSE alone_union_edges(m, lab, c + 1, m.col_ptr[c + 1])

\* the edge loops of label_propagation_worker from column c, entry j
RECURSIVE alone_lp_pass(_, _, _, _, _)
alone_lp_pass(m, lab, c, j, changed) ==
    IF c >= m.ncols THEN [label |-> lab, changed |-> changed]
    ELSE IF j < m.col_ptr[c + 1]
         THEN LET row       == m.row_idx[j]
                  label_col == lab[c]
                  label_row == lab[row]
                  min_label == Min(label_col, label_row)
                  l1 == IF label_col > min_label
                        THEN [lab EXCEPT ![c] = min_label] ELSE lab
                  l2 == IF label_row > min_label
                        THEN [l1 EXCEPT ![row] = min_label] ELSE l1
              IN  IF label_col # label_row
                  THEN alone_lp_pass(m, l2, c, j + 1, 1)
                  ELSE alone_lp_pass(m, lab, c, j + 1, changed)
         ELSE alone_lp_pass(m, lab, c + 1, m.col_ptr[c + 1], changed)

RECURSIVE alone_lp_loop(_, _)
alone_lp_loop(m, lab) ==
    LET r == alone_lp_pass(m, lab, 0, 0, 0)
    IN  IF r.changed = 1 THEN alone_lp_loop(m, r.label) ELSE r.label

\* the count a parallel engine returns with one worker when no allocation
\* fails (m a valid adjacency)
one_worker_count(m, v) ==
    IF v = 1
    THEN count_roots(final_compress(alone_union_edges(m, Identity(m.nrows), 0, 0),
                                    0, m.nrows),
                     0, m.nrows)
    ELSE popcount(bitmap_bits(alone_lp_loop(m, Identity(m.nrows)), m.nrows))

\* the count cc_sequential returns when no allocation fails (m in bounds)
sequential_count(m, v) ==
    IF v = 1
    THEN count_roots(seq_final_compress(
                         seq_union_edges(m, Identity(m.nrows), 0, 0),
                         0, m.nrows),
                     0, m.nrows)
    ELSE popcount(bitmap_bits(seq_lp_loop(m, Identity(m.nrows)), m.nrows))

(***************************************************************************)
(* The calling thread: entry points.                                       *)
(***************************************************************************)
Engines == {"sequential", "openmp", "pthreads", "cilk"}

\* variant_case without the default branch: any other value runs union-find
variant_case_no_default(v) ==
    CASE v = 0 -> "label_propagation"
      [] OTHER -> "union_find"

\* switch (algorithm_variant) of the four entry points
variant_case(v) ==
    CASE v = 0 -> "label_propagation"
      [] v = 1 -> "union_find"
      [] OTHER -> "default"

\* if (!matrix || matrix->nrows == 0) return 0;  -- present in the parallel
\* union-find engines and in the cilk label propagation only
has_empty_guard(e, v) ==
    \/ v = 1 /\ e \in {"pthreads", "openmp", "cilk"}
    \/ v = 0 /\ e = "cilk"

Return(r) ==
    /\ result' = r
    /\ pc' = "done"

\* an entry point up to the point where it asks for the label array
Dispatch ==
    /\ pc = "call"
    /\ ub = "none"
    /\ IF variant_case(algorithm_variant) = "default"
       THEN Return(-1) /\ UNCHANGED <<ub, deref>>
       ELSE IF matrix = NULL
            THEN IF has_empty_guard(engine, algorithm_variant)
                 THEN Return(0) /\ UNCHANGED <<ub, deref>>
                 ELSE \* matrix->nrows through a null reference
                      /\ ub' = "null_deref"
                      /\ pc' = "ub"
                      /\ deref' = TRUE
                      /\ UNCHANGED result
            ELSE /\ deref' = TRUE
                 /\ ub' = ub
                 /\ IF has_empty_guard(engine, algorithm_variant)
                       /\ matrix.nrows = 0
                    THEN Return(0)
                    ELSE pc' = "malloc_label" /\ UNCHANGED result
    /\ UNCHANGED <<inputs, label, heap, next_col, global_change, wk,
                   unclaimed, spawned, create_failed, visits, stored, united,
                   pass_start>>

cc_sequential == engine = "sequential" /\ Dispatch
cc_openmp     == engine = "openmp" /\ Dispatch
cc_pthreads   == engine = "pthreads" /\ Dispatch
cc_cilk       == engine = "cilk" /\ Dispatch

(***************************************************************************)
(* Allocation of the label array and start of the workers.                 *)
(***************************************************************************)
Free(h, buf) ==
    IF h[buf] = "live" THEN [h EXCEPT ![buf] = "freed"]
    ELSE [h EXCEPT ![buf] = "bad_free"]

\* bitmap_failure_frees without the free(label)
bitmap_failure_leaks(h) == h

\* buffers released on the path taken when calloc of the bitmap fails
bitmap_failure_frees(h) == Free(h, "label")

\* buffers released on the successful return of label propagation
lp_success_frees(h) == Free(Free(h, "bitmap"), "label")

\* buffers released on the return of union-find
uf_success_frees(h) == Free(h, "label")

\* the threads of a parallel phase (cilk ignores n_threads)
WorkerSet(e, n) == IF e = "cilk" THEN Threads ELSE 1..n

\* the outcomes of the pthread_create loop: the set of threads that run.
\* The return value of pthread_create is not looked at, so any subset may be
\* missing; the openmp and cilk runtimes start their own workers.
CreateOutcomes ==
    IF engine = "pthreads" THEN SUBSET WorkerSet(engine, n_threads)
    ELSE {WorkerSet(engine, n_threads)}

\* no entry has been taken by a worker yet
NoVisits == [j \in 0..(matrix.nnz - 1) |-> 0]

\* FlagAtPassStart with the flag of the previous pass left in place
FlagAtPassStart_kept(g) == g

\* atomic_store(&global_change, 0) at the top of the do-while body
FlagAtPassStart(g) == 0

StartWorkers ==
    /\ next_col' = 0
    /\ global_change' = FlagAtPassStart(global_change)
    /\ unclaimed' = IF engine = "cilk" THEN 0..(matrix.ncols - 1) ELSE {}
    /\ \E S \in CreateOutcomes :
          /\ wk' = [t \in WorkerSet(engine, n_threads) |->
                       IF t \in S THEN [IdleWorker EXCEPT !.pc = "fetch"]
                       ELSE [IdleWorker EXCEPT !.pc = "uncreated"]]
          /\ spawned' = (spawned \/ S # {})
          /\ create_failed' = (create_failed \/ S # WorkerSet(engine, n_threads))
    /\ visits' = NoVisits
    /\ stored' = FALSE
    /\ united' = [t \in WorkerSet(engine, n_threads) |-> FALSE]
    /\ pass_start' = IF pc = "malloc_label" THEN Identity(matrix.nrows)
                     ELSE label

\* malloc returns NULL: return -1
MallocLabelFails ==
    /\ pc = "malloc_label"
    /\ heap' = [heap EXCEPT !.label = "failed"]
    /\ Return(-1)
    /\ UNCHANGED <<inputs, label, next_col, global_change, wk, ub,
                   unclaimed, spawned, deref, create_failed, visits, stored, united,
                   pass_start>>

\* malloc succeeds: label[i] = i, then the edge phase begins
MallocLabelOk ==
    /\ pc = "malloc_label"
    /\ heap' = [heap EXCEPT !.label = "live"]
    /\ label' = Identity(matrix.nrows)
    /\ IF engine = "sequential"
       THEN /\ pc' = "seq_run"
            /\ UNCHANGED <<next_col, global_change, wk, unclaimed, spawned,
                           create_failed, visits, stored, united,
                   pass_start>>
       ELSE /\ pc' = "join"
            /\ StartWorkers
    /\ UNCHANGED <<inputs, result, ub, deref>>

\* pthread_join(threads[t], NULL) has returned: the thread has ended, or it
\* was never created and the join of the unset handle came back with an error
Joined(t) == wk[t].pc \in {"exit", "uncreated"}

\* AllExited with a join loop that waits for the first thread only
AllExited_first_only == Joined(1)

\* the join loop is over
AllExited == \A t \in DOMAIN wk : Joined(t)

\* pthread_join on the handle of a thread that was never created: the handle
\* is an uninitialised pthread_t, the join may fault instead of returning
JoinInvalidThread ==
    /\ pc = "join" /\ ub = "none"
    /\ \E t \in DOMAIN wk : wk[t].pc = "uncreated"
    /\ ub' = "bad_join"
    /\ pc' = "ub"
    /\ UNCHANGED <<inputs, label, heap, next_col, global_change, wk, result,
                   unclaimed, spawned, deref, create_failed, visits, stored, united,
                   pass_start>>

(***************************************************************************)
(* Parallel union-find after the join: compression, counting, free.        *)
(***************************************************************************)
JoinUnionFind ==
    /\ pc = "join" /\ ub = "none"
    /\ algorithm_variant = 1
    /\ AllExited
    /\ IF Acyclic(label)
       THEN /\ label' = final_compress(label, 0, matrix.nrows)
            /\ pc' = "count"
       ELSE \* find_compress walks a parent cycle and never returns
            /\ label' = label
            /\ pc' = "hang"
    /\ UNCHANGED <<inputs, heap, next_col, global_change, wk, result, ub,
                   unclaimed, spawned, deref, create_failed, visits, stored, united,
                   pass_start>>

\* the counting threads are created and joined like the edge workers.  A
\* counting thread that was not created leaves count_args[i].local unset:
\* the sum then holds an indeterminate addend (any g here), and the join of
\* its handle may fault.
CountRoots ==
    /\ pc = "count"
    /\ \E S \in CreateOutcomes :
          IF S = WorkerSet(engine, n_threads)
          THEN /\ heap' = uf_success_frees(heap)
               /\ Return(parallel_count(label, matrix.nrows, S))
               /\ UNCHANGED <<ub, create_failed>>
          ELSE /\ create_failed' = TRUE
               /\ \/ /\ ub' = "bad_join"
                     /\ pc' = "ub"
                     /\ UNCHANGED <<heap, result>>
                  \/ \E g \in 0..matrix.nrows :
                        /\ heap' = uf_success_frees(heap)
                        /\ Return(parallel_count(label, matrix.nrows, S) + g)
                        /\ ub' = ub
    /\ UNCHANGED <<inputs, label, next_col, global_change, wk,
                   unclaimed, spawned, deref, visits, stored, united,
                   pass_start>>

(***************************************************************************)
(* Parallel label propagation: the convergence loop and the bitmap.        *)
(***************************************************************************)
\* while (atomic_load(&global_change)) with the flag set: another pass
NextPass ==
    /\ pc = "join" /\ ub = "none"
    /\ algorithm_variant = 0
    /\ AllExited
    /\ global_change = 1
    /\ StartWorkers
    /\ UNCHANGED <<inputs, pc, label, heap, result, ub, deref>>

\* the flag is clear: the loop ends
Converged ==
    /\ pc = "join" /\ ub = "none"
    /\ algorithm_variant = 0
    /\ AllExited
    /\ global_change = 0
    /\ pc' = "calloc_bitmap"
    /\ UNCHANGED <<inputs, label, heap, next_col, global_change, wk, result,
                   ub, unclaimed, spawned, deref, create_failed, visits, stored, united,
                   pass_start>>

\* calloc returns NULL: free(label); return -1
CallocBitmapFails ==
    /\ pc = "calloc_bitmap"
    /\ heap' = bitmap_failure_frees([heap EXCEPT !.bitmap = "failed"])
    /\ Return(-1)
    /\ UNCHANGED <<inputs, label, next_col, global_change, wk, ub,
                   unclaimed, spawned, deref, create_failed, visits, stored, united,
                   pass_start>>

\* calloc succeeds: set the bits, count them, free both buffers
CallocBitmapOk ==
    /\ pc = "calloc_bitmap"
    /\ LET n == matrix.nrows
           bitmap_size == (n + 63) \div 64
       IN  IF \E i \in 0..(n - 1) : label[i] \div 64 >= bitmap_size
           THEN /\ ub' = "oob"
                /\ pc' = "ub"
                /\ heap' = [heap EXCEPT !.bitmap = "live"]
                /\ UNCHANGED result
           ELSE /\ heap' = lp_success_frees([heap EXCEPT !.bitmap = "live"])
                /\ Return(popcount(bitmap_bits(label, n)))
                /\ ub' = ub
    /\ UNCHANGED <<inputs, label, next_col, global_change, wk,
                   unclaimed, spawned, deref, create_failed, visits, stored, united,
                   pass_start>>

(***************************************************************************)
(* The sequential engine's edge phase, run by the caller.                  *)
(***************************************************************************)
SeqUnionFind ==
    /\ pc = "seq_run"
    /\ algorithm_variant = 1
    /\ IF ~SeqInBounds(matrix, 1) THEN OutOfBounds
       ELSE LET lab == seq_final_compress(
                           seq_union_edges(matrix, label, 0, 0),
                           0, matrix.nrows)
            IN  /\ label' = lab
                /\ heap' = uf_success_frees(heap)
                /\ Return(count_roots(lab, 0, matrix.nrows))
                /\ UNCHANGED <<inputs, next_col, global_change, wk, ub,
                               unclaimed, spawned, deref, create_failed>>
    /\ UNCHANGED <<visits, stored, united,
                   pass_start>>

SeqLabelProp ==
    /\ pc = "seq_run"
    /\ algorithm_variant = 0
    /\ IF ~SeqInBounds(matrix, 0) THEN OutOfBounds
       ELSE /\ label' = seq_lp_loop(matrix, label)
            /\ pc' = "calloc_bitmap"
            /\ UNCHANGED <<inputs, heap, next_col, global_change, wk, result,
                           ub, unclaimed, spawned, deref, create_failed>>
    /\ UNCHANGED <<visits, stored, united,
                   pass_start>>

(***************************************************************************)
(* Specifications.                                                         *)
(***************************************************************************)
InitCallState(e, v, n, m) ==
    /\ engine = e
    /\ algorithm_variant = v
    /\ n_threads = n
    /\ matrix = m
    /\ pc = "call"
    /\ label = <<>>
    /\ heap = [label |-> "none", bitmap |-> "none"]
    /\ next_col = 0
    /\ global_change = 0
    /\ wk = [t \in WorkerSet(e, n) |-> IdleWorker]
    /\ result = NoResult
    /\ ub = "none"
    /\ unclaimed = {}
    /\ spawned = FALSE
    /\ deref = FALSE
    /\ create_failed = FALSE
    /\ visits = <<>>
    /\ stored = FALSE
    /\ united = [t \in WorkerSet(e, n) |-> FALSE]
    /\ pass_start = <<>>

\* an engine call on its own, outside the benchmark harness
InitCall(e, v, n, m) ==
    /\ InitCallState(e, v, n, m)
    /\ bench = BenchIdle
    /\ args = ArgsIdle

\* adjacencies of the general specification: any shape up to the bounds,
\* row indices up to nrows (one past the last valid index), ncols = nrows
SmallMatrices ==
    UNION {Matrices(n, n, MaxNnz, 0..n) : n \in 0..MaxNodes}

\* contended adjacencies: HubNodes nodes, one entry in column 1 and
\* HubDegree entries in column 2 (a hub), all row indices valid.  With
\* CHUNK_SIZE = 1 the two columns go to different workers.
ContendedMatrices ==
    {MkMatrix(HubNodes, HubNodes, es) :
        es \in {f \in [1..(HubDegree + 1) -> (0..(HubNodes - 1)) \X {1, 2}] :
                   /\ f[1][2] = 1
                   /\ \A i \in 2..(HubDegree + 1) : f[i][2] = 2}}

Init ==
    \/ \E e \in Engines, v \in 0..MaxVariant, n \in Threads,
          m \in {NULL} \cup SmallMatrices :
           InitCall(e, v, n, m)
    \/ \E m \in ContendedMatrices :
           InitCall("pthreads", 1, MaxThreads, m)

WorkerStep(t) ==
    \/ FetchChunk(t)
    \/ TakeColumn(t)
    \/ Walk(t)
    \/ CompressRead(t)
    \/ CompressTest(t)
    \/ CompressWrite(t)
    \/ CasAttempt(t)
    \/ FallbackStore(t)
    \/ ReadCol(t)
    \/ ReadRow(t)
    \/ StoreMin(t)
    \/ SetChanged(t)

Next ==
    \/ cc_sequential
    \/ cc_openmp
    \/ cc_pthreads
    \/ cc_cilk
    \/ MallocLabelFails
    \/ MallocLabelOk
    \/ \E t \in Threads : WorkerStep(t)
    \/ JoinInvalidThread
    \/ JoinUnionFind
    \/ CountRoots
    \/ NextPass
    \/ Converged
    \/ CallocBitmapFails
    \/ CallocBitmapOk
    \/ SeqUnionFind
    \/ SeqLabelProp

Spec == Init /\ [][Next]_vars

(***************************************************************************)
(* Label propagation of the parallel engines on valid adjacencies, with    *)
(* every worker and the calling thread scheduled again and again.          *)
(***************************************************************************)
ValidMatrices ==
    UNION {Matrices(n, n, MaxNnz, 0..(n - 1)) : n \in 1..MaxNodes}

LPInit ==
    \E e \in {"pthreads", "openmp", "cilk"}, n \in Threads, m \in ValidMatrices :
        InitCall(e, 0, n, m)

LPWorkerStep(t) ==
    \/ FetchChunk(t)
    \/ TakeColumn(t)
    \/ ReadCol(t)
    \/ ReadRow(t)
    \/ StoreMin(t)
    \/ SetChanged(t)

LPMainStep ==
    \/ cc_openmp
    \/ cc_pthreads
    \/ cc_cilk
    \/ MallocLabelFails
    \/ MallocLabelOk
    \/ JoinInvalidThread
    \/ NextPass
    \/ Converged
    \/ CallocBitmapFails
    \/ CallocBitmapOk

LPNext == LPMainStep \/ \E t \in Threads : LPWorkerStep(t)

\* each worker thread that can take a step eventually takes one, and so does
\* the calling thread
LPFairness ==
    /\ \A t \in Threads : WF_vars(LPWorkerStep(t))
    /\ WF_vars(LPMainStep)

LiveSpec == LPInit /\ [][LPNext]_vars /\ LPFairness

(***************************************************************************)
(* Union-find of the pthreads engine with three workers on one adjacency   *)
(* of five nodes: column 0 is empty, the stored (row, column) pairs are    *)
(* (4,1), (3,1), (3,2), (3,2), (4,3), (0,4).  The graph is connected.      *)
(***************************************************************************)
TrioThreads == 3

TrioMatrix ==
    MkMatrix(5, 5, <<<<4, 1>>, <<3, 1>>, <<3, 2>>, <<3, 2>>, <<4, 3>>, <<0, 4>>>>)

TrioInit == InitCall("pthreads", 1, TrioThreads, TrioMatrix)

TrioWorkerStep(t) ==
    \/ FetchChunk(t)
    \/ Walk(t)
    \/ CompressRead(t)
    \/ CompressTest(t)
    \/ CompressWrite(t)
    \/ CasAttempt(t)
    \/ FallbackStore(t)

TrioMainStep ==
    \/ cc_pthreads
    \/ MallocLabelFails
    \/ MallocLabelOk
    \/ JoinInvalidThread
    \/ JoinUnionFind
    \/ CountRoots

TrioNext == TrioMainStep \/ \E t \in 1..TrioThreads : TrioWorkerStep(t)

TrioSpec == TrioInit /\ [][TrioNext]_vars

\* each worker thread that can take a step eventually takes one, and so does
\* the calling thread
TrioFairness ==
    /\ \A t \in 1..TrioThreads : WF_vars(TrioWorkerStep(t))
    /\ WF_vars(TrioMainStep)

TrioLiveSpec == TrioSpec /\ TrioFairness

(***************************************************************************)
(* Adjacencies with one column more than rows (ncols = nrows + 1), every   *)
(* row index below nrows: all engines, both variants.                      *)
(***************************************************************************)
WideMatrices ==
    UNION {Matrices(n, n + 1, MaxNnz, 0..(n - 1)) : n \in 1..(MaxNodes - 1)}

\* the contended adjacencies with an empty column HubNodes added
WideContendedMatrices ==
    {[m EXCEPT !.ncols = m.nrows + 1,
               !.col_ptr = [c \in 0..(m.nrows + 1) |->
                               IF c <= m.ncols THEN m.col_ptr[c] ELSE m.nnz]] :
        m \in ContendedMatrices}

WideInit ==
    \/ \E e \in Engines, v \in 0..1, n \in Threads, m \in WideMatrices :
           InitCall(e, v, n, m)
    \/ \E m \in WideContendedMatrices :
           InitCall("pthreads", 1, MaxThreads, m)

WideSpec == WideInit /\ [][Next]_vars

(***************************************************************************)
(* The column cursor of the pthreads workers in unsigned arithmetic of     *)
(* the cursor's width.  atomic_uint and uint32_t hold values modulo 2^32   *)
(* and CHUNK_SIZE is 4096; here the word holds values modulo WordModulus   *)
(* and a chunk has WrapChunk columns, so that WrapChunk divides            *)
(* WordModulus as 4096 divides 2^32.  The adjacency is the diagonal of k   *)
(* nodes: column c holds the one entry (c, c), union_rem(label, c, c)      *)
(* finds a = b and returns, and visits[c] counts the claims of column c.   *)
(***************************************************************************)
WordModulus == 8

WrapChunk == 2

\* claims of one column after which the run is followed no further
MaxClaims == 2

DiagonalMatrix(k) == MkMatrix(k, k, [i \in 1..k |-> <<i - 1, i - 1>>])

WrapInit ==
    \E n \in Threads, k \in 1..(WordModulus - 1) :
        InitCall("pthreads", 1, n, DiagonalMatrix(k))

\* uint32_t col = atomic_fetch_add(args->next_col, CHUNK_SIZE);
\* if (col >= args->num_cols) break;
\* uint32_t end_col = col + CHUNK_SIZE;
\* if (end_col > args->num_cols) end_col = args->num_cols;
\* for (c = col; c < end_col; c++) ... union_rem(args->label, row, c);
FetchChunkWord(t) ==
    /\ Running(t)
    /\ engine = "pthreads"
    /\ wk[t].pc = "fetch"
    /\ \A c \in DOMAIN visits : visits[c] < MaxClaims
    /\ LET col     == next_col
           sum     == (col + WrapChunk) % WordModulus
           end_col == IF sum > matrix.ncols THEN matrix.ncols ELSE sum
       IN  /\ next_col' = sum
           /\ wk' = [wk EXCEPT ![t] =
                       IF col >= matrix.ncols THEN ExitedWorker
                       ELSE [wk[t] EXCEPT !.c = col, !.end_col = end_col]]
           /\ visits' = [c \in DOMAIN visits |->
                            IF col < matrix.ncols /\ col <= c /\ c < end_col
                            THEN visits[c] + 1 ELSE visits[c]]
    /\ UNCHANGED <<inputs, pc, label, heap, global_change, result, ub,
                   unclaimed, spawned, deref, create_failed, stored, united,
                   pass_start>>

WrapNext == TrioMainStep \/ \E t \in Threads : FetchChunkWord(t)

WrapSpec == WrapInit /\ [][WrapNext]_vars

(***************************************************************************)
(* Properties.                                                             *)
(***************************************************************************)
Returned == pc = "done"

\* every buffer the call asked for was obtained
NoAllocFailure == heap.label # "failed" /\ heap.bitmap # "failed"

\* every pthread_create of the call started its thread
NoCreateFailure == ~create_failed

HasBadRow(m) == \E j \in 0..(m.nnz - 1) : m.row_idx[j] >= m.nrows

\* C1: on a valid adjacency the pthreads union-find engine returns exactly
\* the number of connected components, for every worker count and every
\* interleaving of the workers' find / compare-and-swap / store steps.
C1_UnionFindExact ==
    (/\ engine = "pthreads"
     /\ algorithm_variant = 1
     /\ ValidAdjacency(matrix)
     /\ Returned
     /\ NoAllocFailure
     /\ NoCreateFailure)
    => result = NumComponents(matrix)

\* C2: on a valid adjacency the pthreads label-propagation engine returns
\* exactly the number of connected components, which is the number of
\* distinct values of the final label array, for every worker count and
\* every interleaving of the workers' label reads and stores.
C2_LabelPropExact ==
    (/\ engine = "pthreads"
     /\ algorithm_variant = 0
     /\ ValidAdjacency(matrix)
     /\ Returned
     /\ NoAllocFailure
     /\ NoCreateFailure)
    => /\ result = NumComponents(matrix)
       /\ result = Cardinality({label[i] : i \in DOMAIN label})

\* a two-worker label-propagation call that returned 1 for three nodes
C2_Witness ==
    /\ engine = "pthreads"
    /\ algorithm_variant = 0
    /\ n_threads = 2
    /\ ValidAdjacency(matrix)
    /\ matrix.nrows = 3
    /\ NoCreateFailure
    /\ Returned
    /\ result = 1

\* C3: for a fixed adjacency and variant a parallel engine returns the same
\* count for every worker count and every schedule: each run returns what
\* the run with one worker returns.
C3_SameCountForAnyWorkers ==
    (/\ engine \in {"pthreads", "openmp"}
     /\ algorithm_variant \in {0, 1}
     /\ ValidAdjacency(matrix)
     /\ Returned
     /\ NoAllocFailure
     /\ NoCreateFailure)
    => result = one_worker_count(matrix, algorithm_variant)

\* C4: label propagation and union-find return the same count for the same
\* adjacency, in the sequential engine and in each parallel engine: a run of
\* one variant returns what the other variant of that engine returns.
C4_VariantsAgree ==
    (/\ algorithm_variant \in {0, 1}
     /\ ValidAdjacency(matrix)
     /\ Returned
     /\ NoAllocFailure
     /\ NoCreateFailure)
    => result = IF engine = "sequential"
                THEN sequential_count(matrix, 1 - algorithm_variant)
                ELSE one_worker_count(matrix, 1 - algorithm_variant)

\* C5: with worker_count = 1 a parallel engine returns, for every input and
\* each variant, the count the sequential engine returns on that input (so
\* the sequential engine returns one: its label accesses are in bounds).
C5_OneWorkerIsSequential ==
    (/\ engine \in {"pthreads", "openmp"}
     /\ n_threads = 1
     /\ algorithm_variant \in {0, 1}
     /\ matrix # NULL
     /\ Returned
     /\ NoAllocFailure
     /\ NoCreateFailure)
    => /\ SeqInBounds(matrix, algorithm_variant)
       /\ result = sequential_count(matrix, algorithm_variant)

\* C6: for nrows = 0 every engine and both variants return 0 without
\* allocating the label array or the bitmap and without starting a worker.
C6_EmptyGraphReturnsZero ==
    (/\ matrix # NULL
     /\ matrix.nrows = 0
     /\ algorithm_variant \in {0, 1})
    => /\ heap.label = "none" /\ heap.bitmap = "none"
       /\ ~spawned
       /\ ub = "none"
       /\ Returned => result = 0

\* C7: a null adjacency is rejected with -1, for both variants of every
\* engine, before any allocation and without dereferencing the reference.
C7_NullRejected ==
    (matrix = NULL /\ algorithm_variant \in {0, 1})
    => /\ ~deref
       /\ ub = "none"
       /\ heap.label = "none" /\ heap.bitmap = "none"
       /\ Returned => result = -1

\* C8: an algorithm_variant other than 0 or 1 makes every entry point return
\* -1 without allocating a buffer, starting a worker or reading the adjacency.
C8_BadVariantRejected ==
    algorithm_variant \notin {0, 1}
    => /\ pc \in {"call", "done"}
       /\ Returned => result = -1
       /\ heap.label = "none" /\ heap.bitmap = "none"
       /\ ~spawned
       /\ ~deref
       /\ ub = "none"

\* cc_cilk has returned -1 for variant 2 on a non-empty adjacency
C8_Witness ==
    /\ engine = "cilk"
    /\ algorithm_variant = 2
    /\ matrix # NULL
    /\ matrix.nnz > 0
    /\ Returned
    /\ result = -1

\* C9: in every engine and both variants a row index >= nrows is skipped: it
\* never indexes the label array and does not change the returned count.
C9_BadRowSkipped ==
    (/\ matrix # NULL
     /\ HasBadRow(matrix)
     /\ algorithm_variant \in {0, 1})
    => /\ ub # "oob"
       /\ (Returned /\ NoAllocFailure /\ NoCreateFailure)
             => result = NumComponents(matrix)

\* C10: a failed allocation of the label array returns -1 before any worker
\* starts, a failed allocation of the bitmap returns -1, and on every return
\* path each buffer the call allocated has been released exactly once.
C10_AllocationFailure ==
    /\ heap.label = "failed"
         => Returned /\ result = -1 /\ ~spawned /\ heap.bitmap = "none"
    /\ heap.bitmap = "failed" => Returned /\ result = -1
    /\ heap.label # "bad_free" /\ heap.bitmap # "bad_free"
    /\ Returned => /\ heap.label \in {"none", "failed", "freed"}
                   /\ heap.bitmap \in {"none", "failed", "freed"}

\* pthreads label propagation returned -1 after calloc of the bitmap failed,
\* with the label array released
C10_Witness ==
    /\ engine = "pthreads"
    /\ algorithm_variant = 0
    /\ heap.bitmap = "failed"
    /\ heap.label = "freed"
    /\ spawned
    /\ Returned
    /\ result = -1

(***************************************************************************)
(* benchmark_cc (src/src/utils/benchmark.c): a warm-up call, then n_trials  *)
(* timed calls of cc_func whose results are compared with the warm-up's.   *)
(* cc_func is a parameter: each call returns any value of CcResults.       *)
(***************************************************************************)
\* largest n_trials
MaxTrials == 3
\* largest count returned by cc_func (the smallest value is the error -1)
MaxCount == 3

CcResults == (-1)..MaxCount

\* trial_verdict with the two tests in the other order
trial_verdict_mismatch_first(res, warm) ==
    IF res # warm THEN 2 ELSE IF res < 0 THEN 1 ELSE 0

\* the tests on a trial's result: 1 and 2 are returned, 0 continues the loop
trial_verdict(res, warm) ==
    IF res < 0 THEN 1 ELSE IF res # warm THEN 2 ELSE 0

\* b->connected_components = cc_func(m, b->n_threads);
benchmark_warm_up ==
    /\ bench.pc = "call"
    /\ \E r \in CcResults :
          bench' = [bench EXCEPT !.connected_components = r, !.i = 0,
                                 !.pc = "loop"]
    /\ UNCHANGED <<call_state, args>>

\* one iteration of the loop: the timed call, times[i], the two tests
benchmark_trial ==
    /\ bench.pc = "loop"
    /\ bench.i < bench.n_trials
    /\ \E r \in CcResults :
          LET v == trial_verdict(r, bench.connected_components)
              b == [bench EXCEPT !.runs = Append(bench.runs, r)]
          IN  bench' = IF v # 0 THEN [b EXCEPT !.ret = v, !.pc = "done"]
                       ELSE [b EXCEPT !.i = bench.i + 1]
    /\ UNCHANGED <<call_state, args>>

\* the loop ran n_trials times: return 0
benchmark_return ==
    /\ bench.pc = "loop"
    /\ bench.i >= bench.n_trials
    /\ bench' = [bench EXCEPT !.ret = 0, !.pc = "done"]
    /\ UNCHANGED <<call_state, args>>

\* main calls benchmark_cc with a Benchmark made by benchmark_init, which
\* refuses n_trials = 0
BenchInit ==
    /\ InitCallState("sequential", 0, 1, NULL)
    /\ \E n \in 1..MaxTrials :
          bench = [BenchIdle EXCEPT !.pc = "call", !.n_trials = n]
    /\ args = ArgsIdle

BenchNext == benchmark_warm_up \/ benchmark_trial \/ benchmark_return

BenchSpec == BenchInit /\ [][BenchNext]_vars

\* trial k (numbered from 1) must stop the benchmark
BadTrial(k) ==
    bench.runs[k] < 0 \/ bench.runs[k] # bench.connected_components

\* C19: benchmark_cc returns 2 as soon as a trial's count differs from the
\* warm-up's, 1 as soon as a trial's result is negative, and 0 only when all
\* n_trials results are non-negative and equal to the warm-up count: no
\* trial runs after the first negative or different result, and the value
\* returned tells which of the two that result was.
C19_BenchmarkVerdict ==
    /\ bench.pc = "loop" => \A k \in 1..Len(bench.runs) : ~BadTrial(k)
    /\ bench.pc = "done"
         => LET n == Len(bench.runs) IN
            /\ \A k \in 1..(n - 1) : ~BadTrial(k)
            /\ bench.ret \in {0, 1, 2}
            /\ bench.ret = 0 <=> (n = bench.n_trials /\ \A k \in 1..n : ~BadTrial(k))
            /\ bench.ret = 1 <=> (n >= 1 /\ bench.runs[n] < 0)
            /\ bench.ret = 2 <=> (/\ n >= 1
                                  /\ bench.runs[n] >= 0
                                  /\ bench.runs[n] # bench.connected_components)

\* the second of three trials returned a different count: 2 is returned
C19_Witness ==
    /\ bench.pc = "done"
    /\ bench.n_trials = 3
    /\ Len(bench.runs) = 2
    /\ bench.connected_components = 1
    /\ bench.runs[2] = 2
    /\ bench.ret = 2

\* C11: the value an engine call returns is the exact component count or the
\* error value -1, whichever step fails: also when creation of worker threads
\* fails, no count computed from unprocessed edges is returned.
C11_ExactOrError ==
    (/\ ValidAdjacency(matrix)
     /\ algorithm_variant \in {0, 1}
     /\ Returned)
    => result \in {-1, NumComponents(matrix)}

\* worker t is inside the edge loop of a claimed chunk
InChunk(t) == wk[t].pc \notin {"idle", "fetch", "flag", "exit", "uncreated"}

C13_LoopTerminates ==
    (pc = "join" /\ NoCreateFailure)
    ~> (pc = "calloc_bitmap" \/ ~NoCreateFailure)

\* the loop was left after a pass that followed a pass with a change
C13_Witness ==
    /\ pc = "calloc_bitmap"
    /\ NoCreateFailure
    /\ n_threads = 2
    /\ Cardinality({label[i] : i \in DOMAIN label}) = 1
    /\ matrix.nrows = 3

\* C14: during label propagation with two or more workers no store raises a
\* label: in every step label[i] after the step is <= label[i] before it,
\* for every node i.
C14_NoStoreRaisesLabel ==
    [][(/\ algorithm_variant = 0
        /\ engine \in {"pthreads", "openmp", "cilk"}
        /\ Cardinality(DOMAIN wk) >= 2
        /\ pc = "join"
        /\ DOMAIN label' = DOMAIN label)
       => \A i \in DOMAIN label : label'[i] <= label[i]]_vars

\* worker t has ended (or never ran): it can no longer touch the label array
Ended(t) == wk[t].pc \in {"idle", "exit", "uncreated"}

\* C15: phase boundaries are full barriers.  The calling thread enters the
\* compression / counting phase, and the workers of the next
\* label-propagation pass are started, only in a state in which every worker
\* of the current edge phase has ended.
C15_PhaseBarriers ==
    [][(/\ pc = "join"
        /\ \/ pc' \in {"count", "calloc_bitmap", "done"}
           \/ \E t \in DOMAIN wk : Ended(t) /\ wk'[t].pc = "fetch")
       => \A t \in DOMAIN wk : Ended(t)]_vars

\* the counting phase of a two-worker pthreads union-find call whose workers
\* wrote the label array
C15_Witness ==
    /\ engine = "pthreads"
    /\ algorithm_variant = 1
    /\ n_threads = 2
    /\ pc = "count"
    /\ \A t \in DOMAIN wk : wk[t].pc = "exit"
    /\ label # Identity(matrix.nrows)

\* the count of one particular call on (e, v, m): the sequential engine, or a
\* parallel engine in the schedule where one worker takes every chunk
repeated_call_count(e, v, m) ==
    IF e = "sequential" THEN sequential_count(m, v) ELSE one_worker_count(m, v)

\* C16: no step of an engine call writes the caller's adjacency (nrows,
\* ncols, nnz, col_ptr, row_idx keep their values), and a call returns the
\* count that another call on the same adjacency with the same parameters
\* returns.
C16_InputUnchangedSameCount ==
    [][/\ matrix' = matrix
       /\ (/\ pc' = "done"
           /\ algorithm_variant \in {0, 1}
           /\ ValidAdjacency(matrix)
           /\ NoAllocFailure'
           /\ NoCreateFailure')
          => result' = repeated_call_count(engine, algorithm_variant, matrix)]_vars

\* C17: for an adjacency with nnz = 0 and nrows = k >= 1 both variants of
\* every engine return k; once the label array is initialised no step changes
\* an entry of it, and label propagation runs one pass only (the change flag
\* is never set and no worker that has ended is started again).
C17_NoEdges ==
    [][(/\ matrix # NULL
        /\ matrix.nnz = 0
        /\ matrix.nrows >= 1
        /\ algorithm_variant \in {0, 1})
       => /\ label # <<>> => label' = label
          /\ global_change' = 0
          /\ \A t \in DOMAIN wk : wk[t].pc = "exit" => wk'[t].pc = "exit"
          /\ (pc' = "done" /\ NoAllocFailure' /\ NoCreateFailure')
                => result' = matrix.nrows]_vars

\* two-worker pthreads label propagation returned 3 for three isolated nodes
C17_Witness ==
    /\ engine = "pthreads"
    /\ algorithm_variant = 0
    /\ n_threads = 2
    /\ matrix # NULL
    /\ matrix.nnz = 0
    /\ matrix.nrows = 3
    /\ NoCreateFailure
    /\ Returned
    /\ result = 3

\* C18: for an adjacency in which every node is reachable from every other
\* node through the stored edges, both variants of every engine return 1, for
\* every worker count and interleaving.
C18_ConnectedReturnsOne ==
    (/\ ValidAdjacency(matrix)
     /\ NumComponents(matrix) = 1
     /\ algorithm_variant \in {0, 1}
     /\ Returned
     /\ NoAllocFailure
     /\ NoCreateFailure)
    => result = 1

\* C20: the union protocol never loses a union: during the union-find
\* edge-processing phase of the pthreads engine, no step (compare-and-swap,
\* path-compression write, fallback store) separates two nodes that had the
\* same root before the step.
C20_NoUnionLost ==
    [][(/\ engine = "pthreads"
        /\ algorithm_variant = 1
        /\ ValidAdjacency(matrix)
        /\ pc = "join"
        /\ pc' = "join"
        /\ ub = "none"
        /\ ub' = "none")
       => \A x, y \in DOMAIN label :
              Root(label, x) = Root(label, y)
                  => Root(label', x) = Root(label', y)]_vars

\* every node of the array points directly at a root
Flat(lab) == \A i \in DOMAIN lab : lab[lab[i]] = lab[i]

ParallelEngines == {"pthreads", "openmp", "cilk"}

\* C21: after the final compression pass of a parallel union-find engine
\* every node points directly at its root: label[label[i]] = label[i].
C21_FlatAfterCompression ==
    (/\ engine \in ParallelEngines
     /\ algorithm_variant = 1
     /\ ValidAdjacency(matrix)
     /\ pc \in {"count", "done"}
     /\ ub = "none")
    => Flat(label)

C23_LabelWritesAtomic ==
    [][(/\ pc = "join"
        /\ ValidAdjacency(matrix)
        /\ Cardinality({t \in DOMAIN wk : ~Ended(t)}) > 1)
       => \A t \in DOMAIN wk :
              (wk'[t] # wk[t] /\ store_kind(wk[t].pc) # "none")
                  => store_kind(wk[t].pc) = "atomic"]_vars

\* the smallest node index of the component of node i
MinOfComponent(m, i) ==
    CHOOSE r \in Component(m, i) : \A s \in Component(m, i) : r <= s

\* C24: when union-find has finished, in the sequential engine and in the
\* parallel engines under every interleaving, the root of every node is the
\* minimum node index of the node's connected component.
C24_RootIsMinimum ==
    (/\ algorithm_variant = 1
     /\ ValidAdjacency(matrix)
     /\ pc = "done"
     /\ ub = "none"
     /\ NoAllocFailure
     /\ NoCreateFailure)
    => \A i \in DOMAIN label : Root(label, i) = MinOfComponent(matrix, i)

\* C30: in every reachable state of union-find, sequential and parallel,
\* during and after the concurrent phase, label[i] <= i for every node i,
\* so following label from any node reaches a node r with label[r] = r.
C30_ParentNotAbove ==
    (/\ algorithm_variant = 1
     /\ ValidAdjacency(matrix)
     /\ ub = "none")
    => \A i \in DOMAIN label : label[i] <= i

\* worker t is inside a call of union_rem
InUnionRem(t) ==
    /\ t \in DOMAIN wk
    /\ wk[t].pc \in {"walk", "compress_read", "compress_test",
                     "compress_write", "cas", "store"}

\* C25: every call of union_rem terminates under every interleaving: no
\* call makes more than MAX_RETRIES compare-and-swap attempts, and once the
\* edge phase has begun with every worker created, a moment comes at which
\* no worker is inside a call of union_rem.
C25_UnionRemTerminates ==
    /\ [](\A t \in DOMAIN wk : wk[t].retry <= MAX_RETRIES)
    /\ (pc = "join" /\ NoCreateFailure)
           ~> (\A t \in DOMAIN wk : ~InUnionRem(t))

\* a pass of parallel label propagation is over and the calling thread is
\* about to test the change flag
PassOver ==
    /\ engine \in ParallelEngines
    /\ algorithm_variant = 0
    /\ pc = "join"
    /\ ub = "none"
    /\ AllExited

\* C26: the label-propagation loop exits after a pass if and only if no
\* worker stored a label during the pass: when the pass is over the change
\* flag is set exactly if a label was stored, the flag is cleared only while
\* no worker runs, and after the loop every stored entry (r, c) has
\* label[r] = label[c].
C26_ExitIffNoStore ==
    /\ [](PassOver => (global_change = 1 <=> stored))
    /\ [][(global_change = 1 /\ global_change' = 0)
              => \A t \in DOMAIN wk : Ended(t)]_vars
    /\ []((/\ engine \in ParallelEngines
           /\ algorithm_variant = 0
           /\ ValidAdjacency(matrix)
           /\ pc \in {"calloc_bitmap", "done"}
           /\ heap.label # "failed"
           /\ ub = "none"
           /\ NoCreateFailure)
          => \A e \in Edges(matrix) : label[e[1]] = label[e[2]])

\* the loop of a two-worker call has ended after a pass without stores, and
\* an earlier pass had stored a label
C26_Witness ==
    /\ engine \in ParallelEngines
    /\ algorithm_variant = 0
    /\ n_threads = 2
    /\ ValidAdjacency(matrix)
    /\ pc = "calloc_bitmap"
    /\ NoCreateFailure
    /\ ~stored
    /\ global_change = 0
    /\ \E i \in DOMAIN label : label[i] # i

\* C27: in every reachable state of label propagation on a valid adjacency
\* every label value lies in [0, nrows) and is the index of a node of the
\* same connected component as the node that holds it; no bitmap access
\* falls outside the bitmap, and the returned population count is the number
\* of distinct label values.
C27_LabelsStayInComponent ==
    (/\ algorithm_variant = 0
     /\ ValidAdjacency(matrix))
    => /\ ub # "oob"
       /\ \A i \in DOMAIN label :
             /\ label[i] \in 0..(matrix.nrows - 1)
             /\ label[i] \in Component(matrix, i)
       /\ (pc = "done" /\ NoAllocFailure)
             => result = Cardinality({label[i] : i \in DOMAIN label})

\* a two-worker label-propagation call has returned a count below nrows and
\* some node holds the index of another node
C27_Witness ==
    /\ engine \in ParallelEngines
    /\ algorithm_variant = 0
    /\ n_threads = 2
    /\ ValidAdjacency(matrix)
    /\ pc = "done"
    /\ NoAllocFailure
    /\ heap.bitmap = "freed"
    /\ result = 2
    /\ matrix.nrows = 3
    /\ \E i \in DOMAIN label : label[i] # i

\* union_nodes_by_index on two nodes of one set of lab returns 0 and leaves
\* every root and the root of every node as they were
SeqUnionIsNoOp(lab) ==
    \A i, j \in DOMAIN lab :
        Root(lab, i) = Root(lab, j)
            => LET u == union_nodes_by_index(lab, i, j)
               IN  /\ u.ret = 0
                   /\ \A x \in DOMAIN lab :
                         /\ (u.label[x] = x) <=> (lab[x] = x)
                         /\ Root(u.label, x) = Root(lab, x)

EqualFindsReturn(t) ==
    /\ InUnionRem(t)
    /\ wk[t].site \in {"b", "fb"}
    /\ wk'[t].site # wk[t].site
    /\ wk[t].root = wk[t].a

CountThreads == 4

\* the nodes counting thread i visits: for (i = begin; i < end; i++)
CountRange(i, chunk, n) == count_begin(i, chunk) .. (count_end(i, chunk, n) - 1)

\* the nodes that are their own parent
RootsOf(lab) == {i \in DOMAIN lab : lab[i] = i}

CasSucceeds(t) ==
    /\ wk[t].pc = "cas"
    /\ wk'[t] # wk[t]
    /\ label' # label

\* C31: during union-find a node that has stopped being a root
\* (label[i] # i) never becomes a root again, so the number of roots never
\* increases, and each successful compare-and-swap changes the pointer of a
\* node that is a root at that instant and lowers the number of roots by
\* exactly one.
C31_NonRootStaysNonRoot ==
    [][(/\ algorithm_variant = 1
        /\ engine \in ParallelEngines
        /\ DOMAIN label' = DOMAIN label)
       => /\ \A i \in DOMAIN label : label[i] # i => label'[i] # i
          /\ Cardinality(RootsOf(label')) <= Cardinality(RootsOf(label))
          /\ \A t \in DOMAIN wk :
                CasSucceeds(t)
                   => /\ label[wk[t].b] = wk[t].b
                      /\ label'[wk[t].b] = wk[t].a
                      /\ Cardinality(RootsOf(label'))
                            = Cardinality(RootsOf(label)) - 1]_vars

\* with two workers running and a node already linked below another, a
\* worker is at a compare-and-swap whose target is still a root
C31_Witness ==
    /\ algorithm_variant = 1
    /\ pc = "join"
    /\ Cardinality(DOMAIN wk) = 2
    /\ \A u \in DOMAIN wk : ~Ended(u)
    /\ \E i \in DOMAIN label : label[i] # i
    /\ \E t \in DOMAIN wk :
          /\ wk[t].pc = "cas"
          /\ label[wk[t].b] = wk[t].b

\* the label array the edge loops of the sequential cc_union_find leave
SeqBeforeCompression == seq_union_edges(matrix, Identity(matrix.nrows), 0, 0)

\* C32: the final compression pass never changes which nodes are roots: the
\* number of nodes with label[i] = i, and hence the returned count, is the
\* same immediately before and immediately after the pass, in the
\* sequential and in every parallel union-find engine.
C32_CompressionKeepsRoots ==
    /\ [][(/\ algorithm_variant = 1
           /\ engine \in ParallelEngines
           /\ pc = "join"
           /\ pc' = "count")
          => /\ RootsOf(label') = RootsOf(label)
             /\ count_roots(label', 0, matrix.nrows)
                   = count_roots(label, 0, matrix.nrows)]_vars
    /\ []((/\ engine = "sequential"
           /\ algorithm_variant = 1
           /\ matrix # NULL
           /\ pc = "done"
           /\ ub = "none"
           /\ heap.label = "freed")
          => /\ label = seq_final_compress(SeqBeforeCompression, 0, matrix.nrows)
             /\ RootsOf(label) = RootsOf(SeqBeforeCompression)
             /\ result = count_roots(SeqBeforeCompression, 0, matrix.nrows))

\* a sequential union-find call has returned the number of roots, and its
\* final pass had changed the parent of some node
C32_Witness ==
    /\ engine = "sequential"
    /\ algorithm_variant = 1
    /\ matrix # NULL
    /\ pc = "done"
    /\ ub = "none"
    /\ heap.label = "freed"
    /\ label # SeqBeforeCompression
    /\ result = Cardinality(RootsOf(label))

\* C33: in label propagation, for every node i the value of label[i] at the
\* end of a pass is <= its value at the start of that pass (it is so at
\* every moment of the pass), and every pass in which some worker stored a
\* label ends with at least one label strictly smaller than at the start of
\* the pass, for every interleaving, although a store uses label values
\* that were read earlier.
C33_PassLowersLabels ==
    (/\ engine \in ParallelEngines
     /\ algorithm_variant = 0
     /\ pc = "join"
     /\ ub = "none")
    => /\ \A i \in DOMAIN label : label[i] <= pass_start[i]
       /\ (PassOver /\ stored)
             => \E i \in DOMAIN label : label[i] < pass_start[i]

\* a pass of two workers that was not the first one is over, a worker
\* stored a label in it and some label is below its value at the start of
\* the pass
C33_Witness ==
    /\ PassOver
    /\ Cardinality(DOMAIN wk) = 2
    /\ stored
    /\ pass_start # Identity(matrix.nrows)
    /\ \E i \in DOMAIN label : label[i] < pass_start[i]

\* C34: when label propagation terminates, label[i] is the minimum node
\* index of the connected component of i for every node i, in every engine
\* and for every interleaving (of a call whose worker threads were all
\* created), and throughout the run the minimum-index node of each
\* component keeps its own index as label.
C34_LabelIsComponentMinimum ==
    (/\ algorithm_variant = 0
     /\ ValidAdjacency(matrix)
     /\ ub = "none")
    => /\ \A i \in DOMAIN label :
             i = MinOfComponent(matrix, i) => label[i] = i
       /\ (/\ pc \in {"calloc_bitmap", "done"}
           /\ heap.label # "failed"
           /\ NoCreateFailure)
             => \A i \in DOMAIN label : label[i] = MinOfComponent(matrix, i)

\* a two-worker label-propagation call on three nodes has returned, node 2
\* holds label 0 and the last pass changed nothing
C34_Witness ==
    /\ engine \in ParallelEngines
    /\ algorithm_variant = 0
    /\ n_threads = 2
    /\ ValidAdjacency(matrix)
    /\ pc = "done"
    /\ NoCreateFailure
    /\ heap.bitmap = "freed"
    /\ DOMAIN label = 0..2
    /\ label[2] = 0
    /\ pass_start = label

\* the adjacency has more columns than rows and every row index is a node
WideAdjacency(m) ==
    /\ m # NULL
    /\ m.ncols > m.nrows
    /\ \A j \in 0..(m.nnz - 1) : m.row_idx[j] < m.nrows

\* C35: every column index used to index the label array is < nrows: for an
\* adjacency with ncols > nrows no engine reads or writes label[c] with
\* c >= nrows.
C35_ColumnIndexInRange ==
    WideAdjacency(matrix) => ub # "oob"

\* C36: the dynamic-cursor arithmetic of the pthreads workers is free of
\* wraparound for every ncols the word can hold: end_col = col + CHUNK_SIZE
\* is never below col, no column is claimed twice, and when every worker
\* has left its loop every column has been claimed, although each worker
\* advances the shared cursor once more after the range is exhausted.
C36_CursorNeverWraps ==
    (/\ engine = "pthreads"
     /\ pc = "join"
     /\ ub = "none")
    => /\ \A t \in DOMAIN wk : wk[t].end_col >= wk[t].c
       /\ \A c \in DOMAIN visits : visits[c] <= 1
       /\ (AllExited /\ NoCreateFailure)
             => \A c \in DOMAIN visits : visits[c] = 1

(***************************************************************************)
(* parseargs (src/src/utils/args.c).  A command-line argument is a         *)
(* sequence of characters; argv is the sequence of the arguments after     *)
(* the program name.  int holds INT_MIN..INT_MAX, scaled so that the       *)
(* two-digit argument 22 is out of range.                                  *)
(***************************************************************************)
INT_MAX == 21

INT_MIN == -INT_MAX - 1

\* number of arguments after the program name
MaxArgs == 3

DigitValue(ch) ==
    CASE ch = "0" -> 0 [] ch = "1" -> 1 [] ch = "2" -> 2 [] ch = "3" -> 3
      [] ch = "4" -> 4 [] ch = "5" -> 5 [] ch = "6" -> 6 [] ch = "7" -> 7
      [] ch = "8" -> 8 [] ch = "9" -> 9

\* non-empty and every character in '0'..'9'
isuint(s) ==
    /\ s # <<>>
    /\ \A i \in 1..Len(s) :
          s[i] \in {"0", "1", "2", "3", "4", "5", "6", "7", "8", "9"}

\* the number a string of digits denotes
RECURSIVE DecimalValue(_)
DecimalValue(s) ==
    IF s = <<>> THEN 0
    ELSE 10 * DecimalValue(SubSeq(s, 1, Len(s) - 1)) + DigitValue(s[Len(s)])

\* atoi(optarg) for a string of digits: its value, or, when the value is
\* not representable as int, undefined behaviour: any int
atoi(s) ==
    IF DecimalValue(s) <= INT_MAX THEN {DecimalValue(s)} ELSE INT_MIN..INT_MAX

\* the conversion of an int to unsigned int
to_unsigned(val) == val % (2 * (INT_MAX + 1))

\* access(path, R_OK) == 0: the one file that exists and can be read
Readable(path) == path = <<"f">>

\* the arguments the command lines are made of: options with and without an
\* attached argument, an unknown option, numbers, a word, a readable and an
\* unreadable path, the empty string
ArgvTokens ==
    {<<"-", "t">>, <<"-", "n">>, <<"-", "v">>, <<"-", "h">>, <<"-", "x">>,
     <<"-", "t", "2">>,
     <<"0">>, <<"1">>, <<"2">>, <<"2", "2">>, <<"a">>, <<"f">>, <<"g">>, <<>>}

Argvs == UNION {[1..k -> ArgvTokens] : k \in 0..MaxArgs}

\* getopt(argc, argv, "+t:n:v:h") at optind, for arguments that hold one
\* option character: the option (or "?" with optopt, or "end"), its
\* argument and the next optind
getopt(argv, optind) ==
    IF optind > Len(argv) \/ Len(argv[optind]) < 2 \/ argv[optind][1] # "-"
    THEN [opt |-> "end", optopt |-> "", optarg |-> <<>>, optind |-> optind]
    ELSE LET tok == argv[optind]
             ch  == tok[2]
         IN  IF ch \notin {"t", "n", "v", "h"}
             THEN [opt |-> "?", optopt |-> ch, optarg |-> <<>>,
                   optind |-> optind + 1]
             ELSE IF ch = "h"
             THEN [opt |-> "h", optopt |-> "", optarg |-> <<>>,
                   optind |-> optind + 1]
             ELSE IF Len(tok) > 2
             THEN [opt |-> ch, optopt |-> "", optarg |-> SubSeq(tok, 3, Len(tok)),
                   optind |-> optind + 1]
             ELSE IF optind + 1 <= Len(argv)
             THEN [opt |-> ch, optopt |-> "", optarg |-> argv[optind + 1],
                   optind |-> optind + 2]
             ELSE [opt |-> "?", optopt |-> ch, optarg |-> <<>>,
                   optind |-> optind + 1]

\* return r;
parseargs_return(a, r) == [a EXCEPT !.ret = r, !.pc = "done"]

\* one iteration of while ((opt = getopt(...)) != -1) { switch (opt) ... }
parseargs_getopt ==
    /\ args.pc = "getopt"
    /\ LET g == getopt(args.argv, args.optind)
           a == [args EXCEPT !.optind = g.optind,
                             !.seen = IF g.opt = "end" THEN @
                                      ELSE Append(@, <<g.opt, g.optarg>>)]
       IN  IF g.opt = "end" THEN args' = [a EXCEPT !.pc = "file"]
           ELSE IF g.opt \in {"t", "n"}
           THEN IF ~isuint(g.optarg) THEN args' = parseargs_return(a, 1)
                ELSE \E val \in atoi(g.optarg) :
                        args' = IF val = 0 THEN parseargs_return(a, 1)
                                ELSE IF g.opt = "t"
                                THEN [a EXCEPT !.n_threads = to_unsigned(val)]
                                ELSE [a EXCEPT !.n_trials = to_unsigned(val)]
           ELSE IF g.opt = "h" THEN args' = parseargs_return(a, -1)
           ELSE IF g.opt = "v"
           THEN IF ~isuint(g.optarg) THEN args' = parseargs_return(a, 1)
                ELSE \E val \in atoi(g.optarg) :
                        args' = IF val < 0 \/ val > 1
                                THEN parseargs_return(a, 1)
                                ELSE [a EXCEPT !.algorithm_variant =
                                                   to_unsigned(val)]
           ELSE args' = parseargs_return(a, 1)
    /\ UNCHANGED <<call_state, bench>>

\* if (optind < argc) { *filepath = argv[optind]; access ... } else ...
parseargs_filepath ==
    /\ args.pc = "file"
    /\ args' = IF args.optind <= Len(args.argv)
               THEN LET a == [args EXCEPT !.filepath = <<args.argv[args.optind]>>]
                    IN  IF ~Readable(args.argv[args.optind])
                        THEN parseargs_return(a, 1)
                        ELSE parseargs_return(a, 0)
               ELSE parseargs_return(args, 1)
    /\ UNCHANGED <<call_state, bench>>

\* *n_threads = 8; *n_trials = 3; *algorithm_variant = 0; *filepath = NULL;
ArgsInit ==
    /\ InitCallState("sequential", 0, 1, NULL)
    /\ bench = BenchIdle
    /\ \E argv \in Argvs :
          args = [ArgsIdle EXCEPT !.pc = "getopt", !.argv = argv,
                                  !.n_threads = 8, !.n_trials = 3]

ArgsNext == parseargs_getopt \/ parseargs_filepath

ArgsSpec == ArgsInit /\ [][ArgsNext]_vars

\* an option as parseargs read it is one the usage text allows: -t and -n
\* with a number above 0, -v with 0 or 1
AllowedOption(o) ==
    /\ o[1] \in {"t", "n", "v"}
    /\ isuint(o[2])
    /\ o[1] \in {"t", "n"} => DecimalValue(o[2]) # 0
    /\ o[1] = "v" => DecimalValue(o[2]) \in {0, 1}

\* C37: parseargs returns 0 only when the resulting n_threads >= 1,
\* n_trials >= 1, algorithm_variant is 0 or 1 and a readable file path was
\* given; a value of 0 for -t or -n, a non-numeric argument, a variant other
\* than 0 or 1, an unknown option or a missing file does not let it return
\* 0 (it returns 1), and it returns -1 exactly when the last option read is
\* -h, so the engines are never started with zero workers.
C37_ParseargsValidates ==
    args.pc = "done"
    => /\ args.ret \in {-1, 0, 1}
       /\ args.ret = 0
             => /\ args.n_threads >= 1
                /\ args.n_trials >= 1
                /\ args.algorithm_variant \in {0, 1}
                /\ args.filepath # <<>>
                /\ Readable(args.filepath[1])
                /\ \A k \in 1..Len(args.seen) : AllowedOption(args.seen[k])
       /\ args.ret = -1
             <=> (args.seen # <<>> /\ args.seen[Len(args.seen)][1] = "h")
====
